---- MODULE Spec2Model ----
(***************************************************************************)
(* Model of the debt-negotiation backend: the Negotiation Calculator       *)
(* (services/negotiation.service), the Call Session Recorder               *)
(* (routes/api.routes POST /call_result, routes/vapi.routes POST           *)
(* /save-result, db/connection transaction, the call_sessions schema and   *)
(* its trigger), the Invoice/Email Dispatcher (services/email.service) and *)
(* the Authentication Gate (middleware/auth).                              *)
(*                                                                         *)
(* Money in the calculator is counted in ticks of 1/10000 dollar, so that  *)
(* every product with the strategy's one-decimal factors is an exact       *)
(* integer; the recorder counts whole dollars.                             *)
(***************************************************************************)
EXTENDS Integers, Sequences, FiniteSets, TLC

\* ------------------------------------------------------------------------
\* Bounds of the model
\* ------------------------------------------------------------------------
MaxHist == 2        \* longest offer history a negotiation session starts from
MaxCalls == 3       \* negotiate calls made in one session

\* ------------------------------------------------------------------------
\* State
\* ------------------------------------------------------------------------
VARIABLES
    \* a negotiation session, held by the caller
    hist_user,      \* user_amounts
    hist_agent,     \* agent_amounts
    user_debt,      \* the debt the caller quotes
    neg_req,        \* the last NegotiationRequest sent
    neg_resp,       \* the last NegotiationResponse received
    neg_calls,      \* calls made so far in this session
    neg_start,      \* length of user_amounts the session started from
    neg_first_stop, \* number of the first call answered STOP, 0 if none yet
    \* the store and the recorder
    users,          \* table users: id -> email, total_debt, remaining_debt
    call_sessions,  \* table call_sessions: the committed rows, oldest first
    req,            \* per request slot: the handler's inputs, locals, position
    outbox,         \* invoice emails the dispatcher has delivered
    email_impl,     \* which EmailService source the build runs
    nreq,           \* call results submitted so far
    \* the authentication gate
    api_credentials, \* table api_credentials
    areq,            \* the request at the gate: headers, position, answer
    auth_impl,       \* which middleware/auth source the build runs
    webhook_secret,  \* process.env.VAPI_WEBHOOK_SECRET
    nauth,           \* requests that have reached the gate so far
    \* the HTTP API layer: the read routes
    api,             \* the request a route handler is serving, and its answer
    api_prev         \* the user lookup answered before this one

negVars == <<hist_user, hist_agent, user_debt, neg_req, neg_resp, neg_calls,
             neg_start, neg_first_stop>>

recVars == <<users, call_sessions, req, outbox, email_impl, nreq>>

authVars == <<api_credentials, areq, auth_impl, webhook_secret, nauth>>

apiVars == <<api, api_prev>>

vars == <<negVars, recVars, authVars, apiVars>>

\* ------------------------------------------------------------------------
\* Arithmetic helpers
\* ------------------------------------------------------------------------
Dollars(d) == d * 100 * 100

Min2(a, b) == IF a <= b THEN a ELSE b

Max2(a, b) == IF a >= b THEN a ELSE b

\* Math.round(x * 100) / 100 on ticks: nearest cent, halves upward
Round2(t) == ((t + 50) \div 100) * 100

\* marker for the IEEE not-a-number value; the model's amounts are >= 0
NaN == 0 - 1

\* ------------------------------------------------------------------------
\* Negotiation Calculator
\* ------------------------------------------------------------------------
MAX_ROUNDS == 3

\* the strategy's factors, in tenths
TARGET_MULTIPLIER == 13

MIN_ACCEPTABLE_RATIO == 5

Tenths(x, k) == (x * k) \div 10

StopResponse_agentListAsIs(request) ==
    [status |-> "STOP",
     agent_amount |-> request.user_amount,
     user_amounts |-> Append(request.user_amounts, request.user_amount),
     agent_amounts |-> request.agent_amounts]

StopResponse(request) ==
    [status |-> "STOP",
     agent_amount |-> request.user_amount,
     user_amounts |-> Append(request.user_amounts, request.user_amount),
     agent_amounts |-> Append(request.agent_amounts, request.user_amount)]

HaggleResponse(request, agentAmount) ==
    [status |-> "HAGGLE",
     agent_amount |-> agentAmount,
     user_amounts |-> Append(request.user_amounts, request.user_amount),
     agent_amounts |-> Append(request.agent_amounts, agentAmount)]

IsNaN(x) == x = NaN

InitialOffer_current(request) == request.user_amount

\* user_amounts[0] || user_amount : undefined, 0 and NaN are falsy
InitialOffer(request) ==
    IF /\ Len(request.user_amounts) > 0
       /\ request.user_amounts[1] # 0
       /\ ~IsNaN(request.user_amounts[1])
    THEN request.user_amounts[1]
    ELSE request.user_amount

\* Math.min gives NaN as soon as one argument is NaN
TargetAmount(request) ==
    IF IsNaN(InitialOffer(request)) \/ IsNaN(request.user_debt)
    THEN NaN
    ELSE Min2(Tenths(InitialOffer(request), TARGET_MULTIPLIER),
              Min2(request.user_debt, request.user_debt))

FirstRoundOffer_noDebtShare(request) ==
    Min2(Tenths(request.user_amount, 18),
         Min2(request.user_debt, request.user_debt))

FirstRoundOffer(request) ==
    Min2(Tenths(request.user_amount, 18),
         Min2(Min2(request.user_debt, request.user_debt),
              Tenths(request.user_debt, 7)))

MinAcceptable(request) ==
    Max2(Tenths(TargetAmount(request), 9),
         Max2(Tenths(request.user_debt, MIN_ACCEPTABLE_RATIO),
              InitialOffer(request)))

\* rounds after the first; lastAgentAmount is a number here
LaterRoundOffer(request, currentRound) ==
    LET lastAgentAmount == request.agent_amounts[Len(request.agent_amounts)]
        gap == lastAgentAmount - request.user_amount
        reductionFactor == 4 + currentRound
        moved == lastAgentAmount - Tenths(gap, reductionFactor)
        conceded == IF moved >= lastAgentAmount
                    THEN Tenths(lastAgentAmount, 9)
                    ELSE moved
    IN  Max2(conceded, MinAcceptable(request))

\* agentAmount after the rounding: NaN when user_amount or user_debt is not a
\* number, or when agent_amounts[agent_amounts.length - 1] is undefined or
\* NaN (every product, difference, Math.min, Math.max and Math.round keeps it)
CounterOffer(request, currentRound) ==
    IF \/ IsNaN(request.user_amount)
       \/ IsNaN(request.user_debt)
       \/ /\ currentRound > 1
          /\ \/ Len(request.agent_amounts) = 0
             \/ IsNaN(request.agent_amounts[Len(request.agent_amounts)])
    THEN NaN
    ELSE Round2(IF currentRound = 1
                THEN FirstRoundOffer(request)
                ELSE LaterRoundOffer(request, currentRound))

\* user_amount >= targetAmount : false when either side is NaN
MeetsTarget(request) ==
    /\ ~IsNaN(request.user_amount)
    /\ ~IsNaN(TargetAmount(request))
    /\ request.user_amount >= TargetAmount(request)

CloseEnough_noFinalRound(request, agentAmount, currentRound) ==
    /\ ~IsNaN(agentAmount)
    /\ ~IsNaN(request.user_amount)
    /\ agentAmount <= Tenths(request.user_amount, 11)

\* the acceptance test of the last block of negotiate
CloseEnough(request, agentAmount, currentRound) ==
    \/ /\ ~IsNaN(agentAmount)
       /\ ~IsNaN(request.user_amount)
       /\ agentAmount <= Tenths(request.user_amount, 11)
    \/ currentRound = MAX_ROUNDS

\* which return statement of negotiate answers the request
ReturnSite(request) ==
    LET currentRound == Len(request.user_amounts) + 1
    IN  IF currentRound > MAX_ROUNDS
        THEN "max_rounds"
        ELSE IF MeetsTarget(request)
        THEN "target"
        ELSE IF CloseEnough(request, CounterOffer(request, currentRound),
                            currentRound)
        THEN "acceptance"
        ELSE "haggle"

negotiate(request) ==
    LET currentRound == Len(request.user_amounts) + 1
    IN  IF ReturnSite(request) = "haggle"
        THEN HaggleResponse(request, CounterOffer(request, currentRound))
        ELSE StopResponse(request)

\* ------------------------------------------------------------------------
\* A negotiation session: the caller owns the two histories and sends them
\* back, extended by the last response, on every round
\* ------------------------------------------------------------------------
HistoryAmounts == {0, Dollars(100), Dollars(180), Dollars(6000)}

\* the third is 33.33, whose counter-offer 59.994 needs the rounding
UserOffers == {Dollars(100), Dollars(150), Dollars(3333) \div 100,
               Dollars(6000)}

Debts == {Dollars(200), Dollars(5000)}

SeqsUpTo(S, n) == UNION {[1..k -> S] : k \in 0..n}

NoRequest == [user_amounts |-> <<>>, agent_amounts |-> <<>>,
              user_amount |-> 0, user_debt |-> 0]

NoResponse == [status |-> "NONE", agent_amount |-> 0,
               user_amounts |-> <<>>, agent_amounts |-> <<>>]

NegInit ==
    /\ hist_user \in SeqsUpTo(HistoryAmounts, MaxHist)
    /\ hist_agent \in SeqsUpTo(HistoryAmounts, MaxHist)
    /\ user_debt \in Debts
    /\ neg_req = NoRequest
    /\ neg_resp = NoResponse
    /\ neg_calls = 0
    /\ neg_start = Len(hist_user)
    /\ neg_first_stop = 0

\* GET /api/negotiation with a body NegotiationSchema accepts
NegotiateCall(amount) ==
    LET request == [user_amounts |-> hist_user, agent_amounts |-> hist_agent,
                    user_amount |-> amount, user_debt |-> user_debt]
        response == negotiate(request)
    IN  /\ neg_calls < MaxCalls
        /\ neg_resp.agent_amount # NaN
        /\ neg_req' = request
        /\ neg_resp' = response
        /\ hist_user' = response.user_amounts
        /\ hist_agent' = response.agent_amounts
        /\ neg_calls' = neg_calls + 1
        /\ neg_first_stop' = IF neg_first_stop = 0 /\ response.status = "STOP"
                             THEN neg_calls + 1
                             ELSE neg_first_stop
        /\ UNCHANGED <<user_debt, neg_start, recVars, authVars, apiVars>>

NegNext == \E amount \in UserOffers : NegotiateCall(amount)

\* a call has been answered, for a request with equal-length histories
NegAnswered == neg_calls > 0

EqualHistories == Len(neg_req.user_amounts) = Len(neg_req.agent_amounts)

\* C1: for positive user_amount and user_debt and equal-length histories,
\* in any round, the returned agent_amount is at most user_debt, on HAGGLE
\* and on STOP alike.
C1_AgentAmountWithinDebt ==
    (NegAnswered /\ EqualHistories /\ neg_req.user_amount > 0
        /\ neg_req.user_debt > 0)
    => neg_resp.agent_amount <= neg_req.user_debt

\* C2: a session that starts from empty histories and passes every response's
\* lists back gets STOP no later than the 3rd call; and any call whose
\* user_amounts already has 2 or more entries is answered STOP, never HAGGLE.
C2_StopWithinThreeRounds ==
    /\ (neg_start = 0 /\ neg_calls >= 3) => neg_first_stop \in 1..3
    /\ (NegAnswered /\ Len(neg_req.user_amounts) >= 2)
           => neg_resp.status = "STOP"

\* two HAGGLE rounds from empty histories, then the STOP of the third call
C2_Witness ==
    /\ neg_start = 0
    /\ neg_calls = 3
    /\ neg_first_stop = 3
    /\ neg_resp.status = "STOP"

LastAgentAmount == neg_req.agent_amounts[Len(neg_req.agent_amounts)]

\* C15: progressive concessions: in every round after the first of a session,
\* whenever negotiate returns HAGGLE, the returned agent_amount is strictly
\* less than the previous agent amount, the last element of the agent_amounts
\* passed in.
C15_ProgressiveConcessions ==
    (NegAnswered /\ neg_start = 0 /\ neg_first_stop = 0 /\ EqualHistories
        /\ Len(neg_req.user_amounts) >= 1 /\ neg_resp.status = "HAGGLE")
    => neg_resp.agent_amount < LastAgentAmount

FirstRound == Len(neg_req.user_amounts) = 0 /\ Len(neg_req.agent_amounts) = 0

\* min(user_amount x 1.8, user_debt, user_debt x 0.7), to 2 decimals
C16_Candidate ==
    Round2(Min2(Tenths(neg_req.user_amount, 18),
                Min2(neg_req.user_debt, Tenths(neg_req.user_debt, 7))))

\* C16: in round 1 (empty histories) with user_amount below the target and
\* the candidate above user_amount x 1.10, negotiate returns HAGGLE with
\* agent_amount = min(user_amount x 1.8, user_debt, user_debt x 0.7) rounded
\* to 2 decimals; user_amount 100 with user_debt 5000 gives HAGGLE 180 and
\* the lists [100] and [180].
C16_FirstRoundOffer ==
    /\ (NegAnswered /\ FirstRound
          /\ neg_req.user_amount
                 < Min2(Tenths(neg_req.user_amount, 13), neg_req.user_debt)
          /\ C16_Candidate > Tenths(neg_req.user_amount, 11))
          => /\ neg_resp.status = "HAGGLE"
             /\ neg_resp.agent_amount = C16_Candidate
             /\ neg_resp.user_amounts = <<neg_req.user_amount>>
             /\ neg_resp.agent_amounts = <<C16_Candidate>>
    /\ (NegAnswered /\ FirstRound /\ neg_req.user_amount = Dollars(100)
          /\ neg_req.user_debt = Dollars(5000))
          => /\ neg_resp.status = "HAGGLE"
             /\ neg_resp.agent_amount = Dollars(180)
             /\ neg_resp.user_amounts = <<Dollars(100)>>
             /\ neg_resp.agent_amounts = <<Dollars(180)>>

\* the first round of 100 against a debt of 200: 70% of the debt is the
\* smallest of the three terms
C16_Witness ==
    /\ NegAnswered
    /\ FirstRound
    /\ neg_req.user_amount = Dollars(100)
    /\ neg_req.user_debt = Dollars(200)
    /\ neg_resp.status = "HAGGLE"
    /\ neg_resp.agent_amount = Dollars(140)

\* the second round of the documented example
C17_Request ==
    [user_amounts |-> <<Dollars(100)>>, agent_amounts |-> <<Dollars(180)>>,
     user_amount |-> Dollars(150), user_debt |-> Dollars(5000)]

\* C17 as stated: negotiate with user_amounts [100], agent_amounts [180],
\* user_amount 150 and user_debt 5000 goes through the round-2 counter-offer
\* computation (candidate 162, which stands after the clamp) and returns STOP
\* through the acceptance check 162 <= 165, with agent_amount 150.
C17_Original ==
    (NegAnswered /\ neg_req = C17_Request)
    => /\ ReturnSite(neg_req) = "acceptance"
       /\ CounterOffer(neg_req, 2) = Dollars(162)
       /\ neg_resp.status = "STOP"
       /\ neg_resp.agent_amount = Dollars(150)

\* C17: negotiate with user_amounts [100], agent_amounts [180], user_amount
\* 150 and user_debt 5000 returns STOP with agent_amount 150 and the lists
\* [100, 150] and [180, 150], through the target check: 150 is at least the
\* target min(100 x 1.3, 5000) = 130, so no counter-offer is computed.
C17_StopAtTarget ==
    (NegAnswered /\ neg_req = C17_Request)
    => /\ ReturnSite(neg_req) = "target"
       /\ TargetAmount(neg_req) = Dollars(130)
       /\ neg_resp.status = "STOP"
       /\ neg_resp.agent_amount = Dollars(150)
       /\ neg_resp.user_amounts = <<Dollars(100), Dollars(150)>>
       /\ neg_resp.agent_amounts = <<Dollars(180), Dollars(150)>>

\* the example reached as the second call of a session that began with 100
C17_Witness ==
    /\ neg_calls = 2
    /\ neg_start = 0
    /\ neg_req = C17_Request
    /\ neg_resp.status = "STOP"

\* list `after` is list `before` with the one element x added at the end
ExtendedBy(before, after, x) ==
    /\ Len(after) = Len(before) + 1
    /\ SubSeq(after, 1, Len(before)) = before
    /\ after[Len(after)] = x

\* C18: every negotiate response returns each history list as the input list
\* with exactly one element appended and the prefix unchanged: user_amounts
\* gets user_amount; agent_amounts gets user_amount on STOP (and agent_amount
\* equals user_amount) and the returned agent_amount on HAGGLE.
C18_HistoriesExtendedByOne ==
    NegAnswered =>
        /\ neg_resp.status \in {"STOP", "HAGGLE"}
        /\ ExtendedBy(neg_req.user_amounts, neg_resp.user_amounts,
                      neg_req.user_amount)
        /\ neg_resp.status = "STOP"
              => /\ neg_resp.agent_amount = neg_req.user_amount
                 /\ ExtendedBy(neg_req.agent_amounts, neg_resp.agent_amounts,
                               neg_req.user_amount)
        /\ neg_resp.status = "HAGGLE"
              => ExtendedBy(neg_req.agent_amounts, neg_resp.agent_amounts,
                            neg_resp.agent_amount)

\* a HAGGLE and then a STOP on histories that already hold an element
C18_Witness ==
    /\ neg_calls = 3
    /\ neg_start = 0
    /\ neg_resp.status = "STOP"
    /\ Len(neg_req.agent_amounts) = 2
    /\ neg_req.agent_amounts[2] # neg_req.user_amounts[2]
    /\ Len(neg_resp.agent_amounts) = 3

\* the round negotiate takes the call to be: user_amounts.length + 1
CurrentRound == Len(neg_req.user_amounts) + 1

\* C23: whenever negotiate returns HAGGLE the round number is 1 or 2 and the
\* returned agent_amount is strictly greater than user_amount x 1.10; a
\* candidate within 10% of the user's offer is never returned as a
\* counter-offer.
C23_HaggleAboveAcceptance ==
    (NegAnswered /\ neg_resp.status = "HAGGLE")
    => /\ CurrentRound \in {1, 2}
       /\ ~IsNaN(neg_resp.agent_amount)
       /\ neg_resp.agent_amount * 10 > neg_req.user_amount * 11

\* max(target x 0.9, user_debt x 0.5, first-ever user offer), with
\* target = min(first-ever user offer x 1.30, user_debt)
ClampFloor ==
    LET first == neg_req.user_amounts[1]
        target == Min2(Tenths(first, 13), neg_req.user_debt)
    IN  Max2(Tenths(target, 9), Max2(Tenths(neg_req.user_debt, 5), first))

\* C24: in every round after the first a HAGGLE counter-offer is never below
\* the clamp floor max(target x 0.9, user_debt x 0.5, first-ever user offer),
\* up to the rounding to 2 decimals (half a cent).
C24_HaggleAtLeastFloor ==
    (NegAnswered /\ CurrentRound > 1 /\ neg_resp.status = "HAGGLE")
    => /\ ~IsNaN(neg_resp.agent_amount)
       /\ neg_resp.agent_amount + 50 >= ClampFloor

\* C27: the agent never accepts less than the customer's initial offer: in
\* every round after the first the returned agent_amount, on STOP as well as
\* on HAGGLE, is at least the first-ever user offer user_amounts[0].
C27_NeverBelowInitialOffer ==
    (NegAnswered /\ CurrentRound > 1)
    => /\ ~IsNaN(neg_resp.agent_amount)
       /\ neg_resp.agent_amount >= neg_req.user_amounts[1]

\* C30: for every request NegotiationSchema accepts (two arrays of numbers of
\* any lengths, positive user_amount and user_debt), agent_amounts shorter
\* than user_amounts included, negotiate returns a numeric agent_amount and
\* appends no undefined or not-a-number value to agent_amounts.
C30_NumericAgentAmount ==
    NegAnswered
    => /\ ~IsNaN(neg_resp.agent_amount)
       /\ \A i \in DOMAIN neg_resp.agent_amounts :
             ~IsNaN(neg_resp.agent_amounts[i])

\* ------------------------------------------------------------------------
\* Invoice/Email Dispatcher (EmailService)
\* ------------------------------------------------------------------------

\* the characters of the error messages the dispatcher can throw, and of the
\* two words the recorder looks for in them
MessageText(m) ==
    CASE m = "Invoice PDF generation failed" ->
           <<"I", "n", "v", "o", "i", "c", "e", " ", "P", "D", "F", " ", "g", "e", "n", "e", "r", "a", "t", "i", "o", "n", " ", "f", "a", "i", "l", "e", "d">>
      [] m = "Email sending failed" ->
           <<"E", "m", "a", "i", "l", " ", "s", "e", "n", "d", "i", "n", "g", " ", "f", "a", "i", "l", "e", "d">>
      [] m = "Invoice email sending failed" ->
           <<"I", "n", "v", "o", "i", "c", "e", " ", "e", "m", "a", "i", "l", " ", "s", "e", "n", "d", "i", "n", "g", " ", "f", "a", "i", "l", "e", "d">>
      [] m = "Carbone.io credentials not configured" ->
           <<"C", "a", "r", "b", "o", "n", "e", ".", "i", "o", " ", "c", "r", "e", "d", "e", "n", "t", "i", "a", "l", "s", " ", "n", "o", "t", " ", "c", "o", "n", "f", "i", "g", "u", "r", "e", "d">>
      [] m = "Request failed with status code 500" ->
           <<"R", "e", "q", "u", "e", "s", "t", " ", "f", "a", "i", "l", "e", "d", " ", "w", "i", "t", "h", " ", "s", "t", "a", "t", "u", "s", " ", "c", "o", "d", "e", " ", "5", "0", "0">>
      [] m = "Gmail credentials not configured" ->
           <<"G", "m", "a", "i", "l", " ", "c", "r", "e", "d", "e", "n", "t", "i", "a", "l", "s", " ", "n", "o", "t", " ", "c", "o", "n", "f", "i", "g", "u", "r", "e", "d">>
      [] m = "Invalid login" ->
           <<"I", "n", "v", "a", "l", "i", "d", " ", "l", "o", "g", "i", "n">>
      [] m = "invoice" ->
           <<"i", "n", "v", "o", "i", "c", "e">>
      [] m = "email" ->
           <<"e", "m", "a", "i", "l">>

\* String.prototype.includes: a case-sensitive substring test
Includes(message, word) ==
    LET hay == MessageText(message)
        needle == MessageText(word)
    IN  \E i \in 1..(Len(hay) - Len(needle) + 1) :
            SubSeq(hay, i, i + Len(needle) - 1) = needle

\* the two EmailService sources: "resend" wraps every failure in its own
\* Error, "gmail" lets the failure of the render or of the transport through
EmailImpls == {"resend", "gmail"}

RenderFaults == {"none", "credentials", "http"}

SendFaults == {"none", "credentials", "transport"}

\* generateInvoicePDF: the message it throws, "" when it returns the PDF
\* (without its credentials "resend" falls back to the mock PDF and succeeds)
generateInvoicePDF(impl, fault) ==
    IF fault = "none" THEN ""
    ELSE IF impl = "resend"
    THEN IF fault = "credentials" THEN "" ELSE "Invoice PDF generation failed"
    ELSE IF fault = "credentials" THEN "Carbone.io credentials not configured"
    ELSE "Request failed with status code 500"

\* sendEmail (resend) / sendGmailWithAttachment (gmail)
\* (without its API key "resend" falls back to the mock send and succeeds)
sendEmail(impl, fault) ==
    IF fault = "none" THEN ""
    ELSE IF impl = "resend"
    THEN IF fault = "credentials" THEN "" ELSE "Email sending failed"
    ELSE IF fault = "credentials" THEN "Gmail credentials not configured"
    ELSE "Invalid login"

\* sendInvoiceEmail: render, then send; step names the sub-step that failed
sendInvoiceEmail(impl, renderFault, sendFault) ==
    LET renderError == generateInvoicePDF(impl, renderFault)
        sendError == sendEmail(impl, sendFault)
        step == IF renderError # "" THEN "render_failed"
                ELSE IF sendError # "" THEN "send_failed"
                ELSE "ok"
        inner == IF renderError # "" THEN renderError ELSE sendError
    IN  [step |-> step,
         error |-> IF step = "ok" THEN ""
                   ELSE IF impl = "resend" THEN "Invoice email sending failed"
                   ELSE inner]

\* ------------------------------------------------------------------------
\* Authentication Gate (middleware/auth)
\* ------------------------------------------------------------------------
MaxAuthRequests == 2    \* requests that reach the gate in one behaviour

\* bcrypt: the stored hash of a key, and bcrypt.compare against it
bcrypt_hash(key) == <<"bcrypt", key>>

bcrypt_compare(key, hash) == hash = bcrypt_hash(key)

CredentialIds == {"c1", "c2", "c3", "c4"}

\* two usable keys, a deactivated one, an expired one
SeedCredentials ==
    [c \in CredentialIds |->
        [key_hash |-> bcrypt_hash(CASE c = "c1" -> "key-a" [] c = "c2" -> "key-b"
                                    [] c = "c3" -> "key-c" [] c = "c4" -> "key-d"),
         is_active |-> (c # "c3"),
         expired |-> (c = "c4"),
         request_count |-> 0]]

Absent == "absent"

ApiKeyHeaders == {Absent, "", "key-a", "key-b", "key-c", "key-d", "key-x"}

AuthorizationHeaders ==
    {Absent, "Bearer", "Bearer good", "Bearer forged", "Bearer expired"}

SignatureHeaders == {Absent, "", "s3cret", "guess"}

WebhookSecrets == {Absent, "", "s3cret"}

M2MRoutes == {"userinfo", "negotiation", "call_result"}

VapiRoutes == {"get-user-info", "negotiate", "save-result", "webhook"}

AuthImpls == {"key_or_jwt", "key_only"}

\* SELECT * FROM api_credentials WHERE is_active = true
\*   AND (expires_at IS NULL OR expires_at > NOW())
ActiveCredentials(creds) ==
    {c \in DOMAIN creds : creds[c].is_active /\ ~creds[c].expired}

\* the loop over result.rows: the records bcrypt.compare accepts
MatchingCredentials(creds, apiKey) ==
    {c \in ActiveCredentials(creds) : bcrypt_compare(apiKey, creds[c].key_hash)}

\* authHeader.split(' ')[1]
BearerToken(authHeader) ==
    CASE authHeader = "Bearer good" -> "good"
      [] authHeader = "Bearer forged" -> "forged"
      [] authHeader = "Bearer expired" -> "expired"
      [] OTHER -> ""

\* jwt.verify(token, secret): the payload is returned or an error is thrown
jwt_verify(token) ==
    CASE token = "good" -> "ok"
      [] token = "expired" -> "TokenExpiredError"
      [] OTHER -> "JsonWebTokenError"

\* the JWT half of authenticateM2M: 0 stands for next(), else the status
CheckBearer(authHeader) ==
    IF authHeader = Absent THEN 401
    ELSE IF BearerToken(authHeader) = "" THEN 401
    ELSE IF jwt_verify(BearerToken(authHeader)) = "ok" THEN 0
    ELSE 401

authenticateVAPIWebhook_presenceOnly(signature, secret) ==
    IF signature \in {Absent, ""} \/ secret \in {Absent, ""} THEN 401 ELSE 0

\* authenticateVAPIWebhook: 0 stands for next(), else the status
authenticateVAPIWebhook(signature, secret) ==
    IF signature \in {Absent, ""} \/ secret \in {Absent, ""} THEN 401
    ELSE IF signature # secret THEN 401
    ELSE 0

\* requests the server handles at the same time
Slots == {1, 2}

NoAuthRequest ==
    [pc |-> "idle", route |-> "", api_key |-> Absent,
     authorization |-> Absent, signature |-> Absent,
     matched |-> "", keyRecord |-> [id |-> "", request_count |-> 0],
     http |-> 0, handler_ran |-> FALSE, db_fault |-> FALSE]

AuthInit ==
    /\ api_credentials = SeedCredentials
    /\ areq = [s \in Slots |-> NoAuthRequest]
    /\ auth_impl \in AuthImpls
    /\ webhook_secret \in WebhookSecrets
    /\ nauth = 0

AuthIdle ==
    /\ api_credentials = SeedCredentials
    /\ areq = [s \in Slots |-> NoAuthRequest]
    /\ auth_impl = "key_or_jwt"
    /\ webhook_secret = Absent
    /\ nauth = 0

\* a request for a route behind authenticateM2M
ArriveM2M(s, route, apiKey, authHeader) ==
    /\ areq[s].pc \in {"idle", "done"}
    /\ nauth < MaxAuthRequests
    /\ nauth' = nauth + 1
    /\ areq' = [areq EXCEPT ![s] =
                  [NoAuthRequest EXCEPT !.pc = "key", !.route = route,
                                        !.api_key = apiKey,
                                        !.authorization = authHeader]]
    /\ UNCHANGED <<api_credentials, auth_impl, webhook_secret,
                   negVars, recVars, apiVars>>

\* a request for a route of the /api/vapi router
ArriveVapi(s, route, signature) ==
    /\ areq[s].pc \in {"idle", "done"}
    /\ nauth < MaxAuthRequests
    /\ nauth' = nauth + 1
    /\ areq' = [areq EXCEPT ![s] =
                  [NoAuthRequest EXCEPT !.pc = "signature", !.route = route,
                                        !.signature = signature]]
    /\ UNCHANGED <<api_credentials, auth_impl, webhook_secret,
                   negVars, recVars, apiVars>>

\* where authenticateM2M goes when no API key matched
AfterKeyMiss(impl) == IF impl = "key_or_jwt" THEN "bearer" ELSE "handler"

\* the row of result.rows the loop stops at
KeyRecord(creds, apiKey) ==
    LET id == CHOOSE c \in MatchingCredentials(creds, apiKey) : TRUE
    IN  [id |-> id, request_count |-> creds[id].request_count]

\* authenticateM2M: if (apiKey) { SELECT ...; for ... bcrypt.compare }
KeyLookup(s) ==
    /\ areq[s].pc = "key"
    /\ IF areq[s].api_key \in {Absent, ""}
       THEN areq' = [areq EXCEPT ![s].pc = AfterKeyMiss(auth_impl)]
       ELSE \E ok \in BOOLEAN :
               areq' =
                 IF ~ok
                 THEN [areq EXCEPT ![s].pc = "done", ![s].http = 500,
                                   ![s].db_fault = TRUE]
                 ELSE IF MatchingCredentials(api_credentials,
                                             areq[s].api_key) = {}
                 THEN [areq EXCEPT ![s].pc = AfterKeyMiss(auth_impl)]
                 ELSE [areq EXCEPT
                          ![s].pc = "key_update",
                          ![s].keyRecord =
                              KeyRecord(api_credentials, areq[s].api_key),
                          ![s].matched =
                              KeyRecord(api_credentials, areq[s].api_key).id]
    /\ UNCHANGED <<api_credentials, auth_impl, webhook_secret, nauth,
                   negVars, recVars, apiVars>>

UpdateRequestCount_fromRecord(creds, keyRecord) ==
    [creds EXCEPT ![keyRecord.id].request_count = keyRecord.request_count + 1]

\* UPDATE api_credentials SET last_used_at = NOW(),
\*   request_count = request_count + 1 WHERE id = $1  -- one statement
UpdateRequestCount(creds, keyRecord) ==
    [creds EXCEPT ![keyRecord.id].request_count = @ + 1]

\* authenticateM2M: the UPDATE, then next()
KeyUpdate(s) ==
    /\ areq[s].pc = "key_update"
    /\ \E ok \in BOOLEAN :
          IF ok
          THEN /\ api_credentials' =
                     UpdateRequestCount(api_credentials, areq[s].keyRecord)
               /\ areq' = [areq EXCEPT ![s].pc = "handler"]
          ELSE /\ areq' = [areq EXCEPT ![s].pc = "done", ![s].http = 500,
                                       ![s].db_fault = TRUE]
               /\ UNCHANGED api_credentials
    /\ UNCHANGED <<auth_impl, webhook_secret, nauth, negVars, recVars, apiVars>>

\* authenticateM2M: the Authorization header and jwt.verify
BearerCheck(s) ==
    /\ areq[s].pc = "bearer"
    /\ areq' = IF CheckBearer(areq[s].authorization) = 0
               THEN [areq EXCEPT ![s].pc = "handler"]
               ELSE [areq EXCEPT
                        ![s].pc = "done",
                        ![s].http = CheckBearer(areq[s].authorization)]
    /\ UNCHANGED <<api_credentials, auth_impl, webhook_secret, nauth,
                   negVars, recVars, apiVars>>

\* router.use(authenticateVAPIWebhook)
SignatureCheck(s) ==
    /\ areq[s].pc = "signature"
    /\ areq' = IF authenticateVAPIWebhook(areq[s].signature,
                                          webhook_secret) = 0
               THEN [areq EXCEPT ![s].pc = "handler"]
               ELSE [areq EXCEPT
                        ![s].pc = "done",
                        ![s].http =
                            authenticateVAPIWebhook(areq[s].signature,
                                                    webhook_secret)]
    /\ UNCHANGED <<api_credentials, auth_impl, webhook_secret, nauth,
                   negVars, recVars, apiVars>>

\* next(): the route handler (lookup, calculator, recorder, webhook) runs
RunHandler(s) ==
    /\ areq[s].pc = "handler"
    /\ areq' = [areq EXCEPT ![s].pc = "done", ![s].handler_ran = TRUE,
                            ![s].http = 200]
    /\ UNCHANGED <<api_credentials, auth_impl, webhook_secret, nauth,
                   negVars, recVars, apiVars>>

AuthStep(s) ==
    \/ \E route \in M2MRoutes, apiKey \in ApiKeyHeaders,
          authHeader \in AuthorizationHeaders :
            ArriveM2M(s, route, apiKey, authHeader)
    \/ \E route \in VapiRoutes, signature \in SignatureHeaders :
            ArriveVapi(s, route, signature)
    \/ KeyLookup(s)
    \/ KeyUpdate(s)
    \/ BearerCheck(s)
    \/ SignatureCheck(s)
    \/ RunHandler(s)

\* requests reach the gate one at a time
AuthNext == AuthStep(1)

\* requests for GET /api/userinfo at the gate at the same time: no key, a
\* live key, the key of a credential that is not active, an unknown key
ConcurrentArrive(s) ==
    \E apiKey \in {Absent, "key-a", "key-c", "key-x"} :
        ArriveM2M(s, "userinfo", apiKey, Absent)

GateStep(s) ==
    \/ ConcurrentArrive(s)
    \/ KeyLookup(s)
    \/ KeyUpdate(s)
    \/ BearerCheck(s)
    \/ RunHandler(s)

GateNext == \E s \in Slots : GateStep(s)

\* ------------------------------------------------------------------------
\* Relational store: users, call_sessions, constraints and trigger
\* ------------------------------------------------------------------------
MaxRequests == 2    \* call results submitted in one behaviour

UserIds == {"u1", "u2"}

NoEmail == "null"

\* the seeded debtors: u1 has an email on file, u2 has none
SeedUsers ==
    [u \in UserIds |->
        IF u = "u1"
        THEN [phone_number |-> "+1234567890", name |-> "John Doe",
              email |-> "u1@example.com", total_debt |-> 5000,
              remaining_debt |-> 5000]
        ELSE [phone_number |-> "+1234567891", name |-> "Jane Smith",
              email |-> NoEmail, total_debt |-> 9000,
              remaining_debt |-> 7000]]

Outcomes == {"SUCCESS", "PARTIAL", "REFUSED"}

PendingIntegrations ==
    [invoice |-> [status |-> "PENDING", error |-> ""],
     email |-> [status |-> "PENDING", error |-> ""]]

\* the OLD row of an INSERT: there is none
NoRow == [user_id |-> "", outcome |-> "", debt_after |-> 0]

outcome_amount_consistency_anyAmount(row) ==
    row.outcome \in {"SUCCESS", "PARTIAL", "REFUSED"}

\* CHECK constraints and the foreign key of call_sessions
outcome_amount_consistency(row) ==
    \/ (row.outcome = "REFUSED" /\ row.final_amount = 0)
    \/ (row.outcome \in {"SUCCESS", "PARTIAL"} /\ row.final_amount > 0)

financial_consistency(row) == row.debt_after <= row.debt_before

\* idx_active_call_sessions: one row without ended_at per user
idx_active_call_sessions(rows, row) ==
    row.ended \/ \A i \in 1..Len(rows) :
                    rows[i].user_id = row.user_id => rows[i].ended

RowAccepted(us, rows, row) ==
    /\ row.user_id \in DOMAIN us
    /\ row.initial_offer >= 0
    /\ row.final_amount >= 0
    /\ row.debt_before >= 0
    /\ row.debt_after >= 0
    /\ financial_consistency(row)
    /\ outcome_amount_consistency(row)
    /\ idx_active_call_sessions(rows, row)

\* function update_user_debt() of the schema
update_user_debt(us, oldRow, newRow) ==
    IF newRow.outcome \in {"SUCCESS", "PARTIAL"} /\ oldRow.outcome # newRow.outcome
    THEN [us EXCEPT ![newRow.user_id].remaining_debt = newRow.debt_after]
    ELSE us

\* CREATE TRIGGER call_sessions_update_debt AFTER UPDATE ON call_sessions
call_sessions_update_debt == [timing |-> "AFTER", event |-> "UPDATE"]

FireTriggers_onAnyWrite(us, event, oldRow, newRow) ==
    [us EXCEPT ![newRow.user_id].remaining_debt = newRow.debt_after]

\* the row triggers the store runs for a statement on call_sessions
FireTriggers(us, event, oldRow, newRow) ==
    IF event = call_sessions_update_debt.event
    THEN update_user_debt(us, oldRow, newRow)
    ELSE us

\* ------------------------------------------------------------------------
\* Call Session Recorder
\* ------------------------------------------------------------------------
\* the helper of utils/call-session.utils (no route calls it)
calculateDebtAfter(status, currentDebt, paymentAmount) ==
    IF status = "REFUSED"
    THEN currentDebt
    ELSE Max2(0, currentDebt - paymentAmount)

CallResultDebtAfter_noFloor(status, debt, final_amount) ==
    IF status = "REFUSED" THEN debt ELSE debt - final_amount

\* POST /call_result: const debtAfter = status === 'REFUSED' ? debt : ...
CallResultDebtAfter(status, debt, final_amount) ==
    IF status = "REFUSED" THEN debt ELSE Max2(0, debt - final_amount)

\* POST /save-result: the same expression on params
SaveResultDebtAfter(status, debt, final_amount) ==
    IF status = "REFUSED" THEN debt ELSE Max2(0, debt - final_amount)

\* if (status === 'SUCCESS' || status === 'PARTIAL') ... if (user.email)
InvokesDispatcher_noEmailCheck(status, email) ==
    status \in {"SUCCESS", "PARTIAL"}

InvokesDispatcher(status, email) ==
    /\ status \in {"SUCCESS", "PARTIAL"}
    /\ email \notin {NoEmail, ""}

\* the assignments after a sendInvoiceEmail that returned
IntegrationsOnSuccess ==
    [invoice |-> [status |-> "SUCCESS", error |-> ""],
     email |-> [status |-> "SUCCESS", error |-> ""]]

\* the catch block around the dispatcher
IntegrationsOnError(integrations, message) ==
    LET withInvoice ==
            IF Includes(message, "invoice")
            THEN [integrations EXCEPT !.invoice =
                      [status |-> "FAILED", error |-> message]]
            ELSE integrations
    IN  IF Includes(message, "email")
        THEN [withInvoice EXCEPT !.email =
                  [status |-> "FAILED", error |-> message]]
        ELSE withInvoice

SessionRow_open(r, channel) ==
    [user_id |-> r.user_id,
     call_channel |-> channel,
     outcome |-> r.status,
     initial_offer |-> r.initial_amount,
     final_amount |-> r.final_amount,
     debt_before |-> r.debt,
     debt_after |-> r.debtAfter,
     integrations |-> r.integrations,
     ended |-> FALSE]

\* INSERT INTO call_sessions (..., ended_at) VALUES (..., NOW()) on both
\* routes and in saveCallSession: the row is written with its end time
SessionRow(r, channel) ==
    [user_id |-> r.user_id,
     call_channel |-> channel,
     outcome |-> r.status,
     initial_offer |-> r.initial_amount,
     final_amount |-> r.final_amount,
     debt_before |-> r.debt,
     debt_after |-> r.debtAfter,
     integrations |-> r.integrations,
     ended |-> TRUE]

Routes == {"call_result", "save_result"}

NoUser == [phone_number |-> "", name |-> "", email |-> NoEmail,
           total_debt |-> 0, remaining_debt |-> 0]

NoResponseYet == [http |-> 0, ok |-> FALSE, debt_left |-> 0,
                  email_sent |-> FALSE, session_id |-> 0]

IdleReq ==
    [pc |-> "idle", route |-> "", user_id |-> "", status |-> "",
     initial_amount |-> 0, final_amount |-> 0, debt |-> 0,
     user |-> NoUser, debtAfter |-> 0,
     integrations |-> PendingIntegrations,
     mail |-> "none", tx |-> <<>>, client |-> "none",
     stmts |-> <<>>, releases |-> 0,
     db_fault |-> FALSE, rejected |-> FALSE,
     users_at_submit |-> SeedUsers, rows_at_submit |-> 0,
     response |-> NoResponseYet]

\* bodies CallResultSchema accepts (and the same parameters on /save-result)
RequestUsers == UserIds \cup {"nobody"}

FinalAmounts == {0, 150}

RequestDebts == {100, 5000}

RecInit ==
    /\ users = SeedUsers
    /\ call_sessions = <<>>
    /\ req = [s \in Slots |-> IdleReq]
    /\ outbox = 0
    /\ email_impl \in EmailImpls
    /\ nreq = 0

RecIdle ==
    /\ users = SeedUsers
    /\ call_sessions = <<>>
    /\ req = [s \in Slots |-> IdleReq]
    /\ outbox = 0
    /\ email_impl = "resend"
    /\ nreq = 0

NegIdle ==
    /\ hist_user = <<>>
    /\ hist_agent = <<>>
    /\ user_debt = 0
    /\ neg_req = NoRequest
    /\ neg_resp = NoResponse
    /\ neg_calls = 0
    /\ neg_start = 0
    /\ neg_first_stop = 0

\* res.status(500).json(...) of POST /call_result,
\* res.json({results: [{error}]}) of POST /save-result
ErrorResponse(route) ==
    [NoResponseYet EXCEPT !.http = IF route = "call_result" THEN 500 ELSE 200]

SuccessResponse(r, session_id) ==
    [http |-> 200, ok |-> TRUE, debt_left |-> r.debtAfter,
     email_sent |-> (r.integrations.email.status = "SUCCESS"),
     session_id |-> session_id]

\* a request arrives at a free slot and has passed its gate and validation
Submit(s, route, uid, status, final, debt) ==
    /\ req[s].pc \in {"idle", "done"}
    /\ nreq < MaxRequests
    /\ nreq' = nreq + 1
    /\ req' = [req EXCEPT ![s] =
                 [IdleReq EXCEPT
                     !.pc = IF route = "call_result" THEN "connect"
                            ELSE "sr_select",
                     !.route = route, !.user_id = uid, !.status = status,
                     !.initial_amount = 100, !.final_amount = final,
                     !.debt = debt,
                     !.users_at_submit = users,
                     !.rows_at_submit = Len(call_sessions)]]
    /\ UNCHANGED <<users, call_sessions, outbox, email_impl,
                   negVars, authVars, apiVars>>

TransactionNext_commitErrorSwallowed(step, ok) ==
    CASE step = "BEGIN"    -> IF ok THEN "select" ELSE "rollback"
      [] step = "callback" -> IF ok THEN "commit" ELSE "rollback"
      [] step = "COMMIT"   -> "done"
      [] step = "ROLLBACK" -> "done"

\* transaction: try { BEGIN; callback; COMMIT; return } catch { ROLLBACK;
\* throw } finally { release() } -- where control goes after a statement or
\* the callback, by whether it threw
TransactionNext(step, ok) ==
    CASE step = "BEGIN"    -> IF ok THEN "select" ELSE "rollback"
      [] step = "callback" -> IF ok THEN "commit" ELSE "rollback"
      [] step = "COMMIT"   -> IF ok THEN "done" ELSE "rollback"
      [] step = "ROLLBACK" -> "done"

\* transaction: getClient(); a failed pool.connect reaches the route's catch
Connect(s) ==
    /\ req[s].pc = "connect"
    /\ \E ok \in BOOLEAN :
          req' = [req EXCEPT ![s] =
                    IF ok
                    THEN [@ EXCEPT !.pc = "begin", !.client = "held"]
                    ELSE [@ EXCEPT !.pc = "done", !.db_fault = TRUE,
                                   !.response =
                                       ErrorResponse(req[s].route)]]
    /\ UNCHANGED <<users, call_sessions, outbox, email_impl, nreq,
                   negVars, authVars, apiVars>>

\* transaction: client.query('BEGIN')
Begin(s) ==
    /\ req[s].pc = "begin"
    /\ \E ok \in BOOLEAN :
          req' = [req EXCEPT ![s] =
                    [@ EXCEPT !.pc = TransactionNext("BEGIN", ok),
                              !.stmts = Append(@, "BEGIN"),
                              !.db_fault = ~ok]]
    /\ UNCHANGED <<users, call_sessions, outbox, email_impl, nreq,
                   negVars, authVars, apiVars>>

\* the locals the handler sets between the user lookup and the dispatcher
AfterLookup(r, user, insertPc) ==
    [r EXCEPT !.user = user,
              !.debtAfter =
                  IF r.route = "call_result"
                  THEN CallResultDebtAfter(r.status, r.debt, r.final_amount)
                  ELSE SaveResultDebtAfter(r.status, r.debt, r.final_amount),
              !.integrations = PendingIntegrations,
              !.pc = IF InvokesDispatcher(r.status, user.email)
                     THEN "dispatch"
                     ELSE insertPc]

\* POST /call_result: SELECT * FROM users WHERE id = $1, inside the
\* transaction; no row throws 'User not found'
SelectUser(s) ==
    /\ req[s].pc = "select"
    /\ \E ok \in BOOLEAN :
          req' = [req EXCEPT ![s] =
                    IF ~ok
                    THEN [@ EXCEPT !.pc = TransactionNext("callback", FALSE),
                                   !.db_fault = TRUE]
                    ELSE IF @.user_id \notin DOMAIN users
                    THEN [@ EXCEPT !.pc = TransactionNext("callback", FALSE)]
                    ELSE AfterLookup(@, users[@.user_id], "insert")]
    /\ UNCHANGED <<users, call_sessions, outbox, email_impl, nreq,
                   negVars, authVars, apiVars>>

\* where the handler continues after the dispatcher's try/catch: the catch
\* block swallows the error, so the insert follows on every outcome
AfterDispatch(route, step) ==
    IF route = "call_result" THEN "insert" ELSE "sr_insert"

\* both routes: await emailService.sendInvoiceEmail(...) in its try/catch
Dispatch(s) ==
    /\ req[s].pc = "dispatch"
    /\ \E renderFault \in RenderFaults, sendFault \in SendFaults :
          LET result == sendInvoiceEmail(email_impl, renderFault, sendFault)
              next == AfterDispatch(req[s].route, result.step)
          IN  /\ req' = [req EXCEPT ![s] =
                           [@ EXCEPT
                              !.pc = next,
                              !.mail = result.step,
                              !.integrations =
                                  IF result.step = "ok"
                                  THEN IntegrationsOnSuccess
                                  ELSE IntegrationsOnError(@, result.error)]]
              /\ outbox' = IF result.step = "ok" THEN outbox + 1 ELSE outbox
    /\ UNCHANGED <<users, call_sessions, email_impl, nreq,
                   negVars, authVars, apiVars>>

\* POST /call_result: INSERT INTO call_sessions ... inside the transaction
Insert(s) ==
    /\ req[s].pc = "insert"
    /\ \E ok \in BOOLEAN :
          LET row == SessionRow(req[s], "MANUAL")
          IN  req' = [req EXCEPT ![s] =
                        IF ~ok
                        THEN [@ EXCEPT
                                !.pc = TransactionNext("callback", FALSE),
                                !.db_fault = TRUE]
                        ELSE IF ~RowAccepted(users, call_sessions, row)
                        THEN [@ EXCEPT
                                !.pc = TransactionNext("callback", FALSE),
                                !.rejected = TRUE]
                        ELSE [@ EXCEPT
                                !.pc = TransactionNext("callback", TRUE),
                                !.tx = <<row>>]]
    /\ UNCHANGED <<users, call_sessions, outbox, email_impl, nreq,
                   negVars, authVars, apiVars>>

\* transaction: client.query('COMMIT'), release(), then res.json(result);
\* the row and what its triggers wrote become visible together
Commit(s) ==
    /\ req[s].pc = "commit"
    /\ \E ok \in BOOLEAN :
          IF ok
          THEN /\ call_sessions' = call_sessions \o req[s].tx
               /\ users' = FireTriggers(users, "INSERT", NoRow, req[s].tx[1])
               /\ req' = [req EXCEPT ![s] =
                            [@ EXCEPT
                               !.pc = TransactionNext("COMMIT", TRUE),
                               !.tx = <<>>,
                               !.stmts = Append(@, "COMMIT"),
                               !.client = "released",
                               !.releases = @ + 1,
                               !.response =
                                   SuccessResponse(req[s],
                                                   Len(call_sessions) + 1)]]
          ELSE /\ req' = [req EXCEPT ![s] =
                            [@ EXCEPT !.pc = TransactionNext("COMMIT", FALSE),
                                      !.stmts = Append(@, "COMMIT"),
                                      !.db_fault = TRUE]]
               /\ UNCHANGED <<users, call_sessions>>
    /\ UNCHANGED <<outbox, email_impl, nreq, negVars, authVars, apiVars>>

\* transaction: catch -> client.query('ROLLBACK'), rethrow; finally release();
\* the route's catch answers 500 whether or not ROLLBACK itself failed
Rollback(s) ==
    /\ req[s].pc = "rollback"
    /\ \E ok \in BOOLEAN :
          req' = [req EXCEPT ![s] =
                    [@ EXCEPT !.pc = TransactionNext("ROLLBACK", ok),
                              !.tx = <<>>,
                              !.stmts = Append(@, "ROLLBACK"),
                              !.client = "released",
                              !.releases = @ + 1,
                              !.db_fault = (req[s].db_fault \/ ~ok),
                              !.response = ErrorResponse(req[s].route)]]
    /\ UNCHANGED <<users, call_sessions, outbox, email_impl, nreq,
                   negVars, authVars, apiVars>>

\* POST /save-result: query('SELECT * FROM users WHERE id = $1'), no
\* transaction; no row answers {error: 'User not found'}
SaveSelectUser(s) ==
    /\ req[s].pc = "sr_select"
    /\ \E ok \in BOOLEAN :
          req' = [req EXCEPT ![s] =
                    IF ~ok
                    THEN [@ EXCEPT !.pc = "done", !.db_fault = TRUE,
                                   !.response = ErrorResponse(req[s].route)]
                    ELSE IF @.user_id \notin DOMAIN users
                    THEN [@ EXCEPT !.pc = "done",
                                   !.response = ErrorResponse(req[s].route)]
                    ELSE AfterLookup(@, users[@.user_id], "sr_insert")]
    /\ UNCHANGED <<users, call_sessions, outbox, email_impl, nreq,
                   negVars, authVars, apiVars>>

\* POST /save-result: query('INSERT INTO call_sessions ...'), autocommitted
SaveInsert(s) ==
    /\ req[s].pc = "sr_insert"
    /\ \E ok \in BOOLEAN :
          LET row == SessionRow(req[s], "VAPI")
          IN  IF ok /\ RowAccepted(users, call_sessions, row)
              THEN /\ call_sessions' = Append(call_sessions, row)
                   /\ users' = FireTriggers(users, "INSERT", NoRow, row)
                   /\ req' = [req EXCEPT ![s] =
                                [@ EXCEPT
                                   !.pc = "done",
                                   !.response =
                                       SuccessResponse(req[s],
                                                       Len(call_sessions) + 1)]]
              ELSE /\ req' = [req EXCEPT ![s] =
                                [@ EXCEPT
                                   !.pc = "done",
                                   !.db_fault = ~ok,
                                   !.rejected = ok,
                                   !.response = ErrorResponse(req[s].route)]]
                   /\ UNCHANGED <<users, call_sessions>>
    /\ UNCHANGED <<outbox, email_impl, nreq, negVars, authVars, apiVars>>

RecStep(s) ==
    \/ \E route \in Routes, uid \in RequestUsers, status \in Outcomes,
          final \in FinalAmounts, debt \in RequestDebts :
            Submit(s, route, uid, status, final, debt)
    \/ Connect(s)
    \/ Begin(s)
    \/ SelectUser(s)
    \/ Dispatch(s)
    \/ Insert(s)
    \/ Commit(s)
    \/ Rollback(s)
    \/ SaveSelectUser(s)
    \/ SaveInsert(s)

\* ------------------------------------------------------------------------
\* HTTP API layer: the routes that call the Negotiation Calculator
\* ------------------------------------------------------------------------

\* a JSON or query-string value: its type and what Number(value) gives
JNumber(v) == [t |-> "number", v |-> v]

JString(v) == [t |-> "string", v |-> v]

JUndefined == [t |-> "undefined", v |-> NaN]

\* a list parameter: whether it is an array, whether its items are strings
JArray(items) == [isArray |-> TRUE, strings |-> FALSE, items |-> items]

NotArray == [isArray |-> FALSE, strings |-> FALSE, items |-> <<>>]

\* the coercion the arithmetic and the comparisons of negotiate apply
ToNumber(j) == j.v

RawAmounts == {JNumber(Dollars(100)), JNumber(0), JNumber(0 - Dollars(100)),
               JString(Dollars(100)), JString(NaN), JUndefined}

RawDebts == {JNumber(Dollars(5000)), JNumber(0), JNumber(0 - Dollars(5000)),
             JString(NaN), JUndefined}

RawUserLists == {NotArray, JArray(<<>>), JArray(<<Dollars(100)>>)}

RawAgentLists == {NotArray, JArray(<<>>), JArray(<<Dollars(180)>>)}

\* req.query: the query parser delivers every scalar as a string, and a list
\* as an array of strings (an empty list cannot be written in a query string)
QueryScalar(j) == IF j.t = "undefined" THEN j ELSE JString(j.v)

QueryList(l) ==
    IF l.isArray /\ Len(l.items) > 0
    THEN [isArray |-> TRUE, strings |-> TRUE, items |-> l.items]
    ELSE NotArray

ParseQuery(params) ==
    [user_amounts |-> QueryList(params.user_amounts),
     agent_amounts |-> QueryList(params.agent_amounts),
     user_amount |-> QueryScalar(params.user_amount),
     user_debt |-> QueryScalar(params.user_debt)]

\* z.number().positive() and z.array(z.number()): no coercion of strings
ZodPositiveNumber(j) == j.t = "number" /\ ~IsNaN(j.v) /\ j.v > 0

ZodNumberArray(l) == l.isArray /\ (l.strings => Len(l.items) = 0)

NegotiationSchema(data) ==
    /\ ZodNumberArray(data.user_amounts)
    /\ ZodNumberArray(data.agent_amounts)
    /\ ZodPositiveNumber(data.user_amount)
    /\ ZodPositiveNumber(data.user_debt)

NegotiateRoutes == {"GET /api/negotiation", "POST /api/vapi/negotiate"}

NoBody == [user_id |-> "", name |-> "", debt |-> 0, email |-> "",
           error |-> ""]

LookupRoutes == {"GET /api/userinfo", "POST /api/vapi/get-user-info"}

\* no request served yet
NoApi == [route |-> "", http |-> 0, called |-> FALSE, invalid_amount |-> FALSE,
          args |-> NoRequest, result |-> NoResponse,
          phone |-> "", queried |-> FALSE, db_fault |-> FALSE,
          envelope |-> "", body |-> NoBody]

ApiIdle ==
    /\ api = NoApi
    /\ api_prev = NoApi

\* the request object the handler hands to negotiationService.negotiate
NegotiateArgs(data) ==
    [user_amounts |-> data.user_amounts.items,
     agent_amounts |-> data.agent_amounts.items,
     user_amount |-> ToNumber(data.user_amount),
     user_debt |-> ToNumber(data.user_debt)]

\* a value that is negative, zero or not numeric
InvalidAmount(j) == IsNaN(ToNumber(j)) \/ ToNumber(j) <= 0

\* GET /api/negotiation: NegotiationSchema.safeParse(req.query), 400 on
\* failure, else negotiate(validation.data)
GetNegotiation(params) ==
    LET data == ParseQuery(params)
        valid == NegotiationSchema(data)
    IN  /\ api' = [NoApi EXCEPT
                     !.route = "GET /api/negotiation",
                     !.invalid_amount = InvalidAmount(params.user_amount)
                                        \/ InvalidAmount(params.user_debt),
                     !.http = IF valid THEN 200 ELSE 400,
                     !.called = valid,
                     !.args = IF valid THEN NegotiateArgs(data)
                              ELSE NoRequest,
                     !.result = IF valid THEN negotiate(NegotiateArgs(data))
                                ELSE NoResponse]
        /\ UNCHANGED <<api_prev, negVars, recVars, authVars>>

\* POST /api/vapi/negotiate: the lists default to [] unless they are arrays,
\* user_amount and user_debt go to negotiate as they came
VapiNegotiate(params) ==
    LET data == [params EXCEPT
                    !.user_amounts = IF @.isArray THEN @ ELSE JArray(<<>>),
                    !.agent_amounts = IF @.isArray THEN @ ELSE JArray(<<>>)]
    IN  /\ api' = [NoApi EXCEPT
                     !.route = "POST /api/vapi/negotiate",
                     !.invalid_amount = InvalidAmount(params.user_amount)
                                        \/ InvalidAmount(params.user_debt),
                     !.http = 200,
                     !.called = TRUE,
                     !.args = NegotiateArgs(data),
                     !.result = negotiate(NegotiateArgs(data))]
        /\ UNCHANGED <<api_prev, negVars, recVars, authVars>>

NegotiateParams ==
    [user_amounts : RawUserLists, agent_amounts : RawAgentLists,
     user_amount : RawAmounts, user_debt : RawDebts]

\* ------------------------------------------------------------------------
\* HTTP API layer: the User Directory routes
\* ------------------------------------------------------------------------

\* phone numbers a caller may ask for: the two debtors, a stranger, nothing
Phones == {"+1234567890", "+1234567891", "+1999999999", ""}

\* SELECT id, name, phone_number, email, remaining_debt FROM users
\* WHERE phone_number = $1
UsersByPhone(us, phone) == {u \in DOMAIN us : us[u].phone_number = phone}

\* UserInfoSchema: phone_number: z.string().min(1)
UserInfoSchema(phone) == phone # ""

UserBody(us, u) ==
    [user_id |-> u, name |-> us[u].name, debt |-> us[u].remaining_debt,
     email |-> us[u].email, error |-> ""]

\* GET /api/userinfo after the query returned
UserInfoResponse(us, rows) ==
    IF rows = {}
    THEN [http |-> 404, envelope |-> "",
          body |-> [NoBody EXCEPT !.error = "User not found"]]
    ELSE [http |-> 200, envelope |-> "",
          body |-> UserBody(us, CHOOSE u \in rows : TRUE)]

VapiUserInfoResponse_errorOnMiss(us, rows) ==
    IF rows = {}
    THEN [http |-> 200, envelope |-> "error",
          body |-> [NoBody EXCEPT !.error = "User not found"]]
    ELSE [http |-> 200, envelope |-> "result",
          body |-> UserBody(us, CHOOSE u \in rows : TRUE)]

\* POST /api/vapi/get-user-info after the query returned
VapiUserInfoResponse(us, rows) ==
    IF rows = {}
    THEN [http |-> 200, envelope |-> "result",
          body |-> [user_id |-> "null", name |-> "valued customer",
                    debt |-> 0, email |-> "",
                    error |-> "User not found in our system"]]
    ELSE [http |-> 200, envelope |-> "result",
          body |-> UserBody(us, CHOOSE u \in rows : TRUE)]

\* the lookup answered before this request, if this request follows one
PreviousLookup == IF api.route \in LookupRoutes THEN api ELSE api_prev

\* GET /api/userinfo
GetUserInfo(phone) ==
    /\ \E ok \in BOOLEAN :
          LET answer == UserInfoResponse(users, UsersByPhone(users, phone))
          IN  api' =
                IF ~UserInfoSchema(phone)
                THEN [NoApi EXCEPT !.route = "GET /api/userinfo",
                                   !.phone = phone, !.http = 400]
                ELSE IF ~ok
                THEN [NoApi EXCEPT !.route = "GET /api/userinfo",
                                   !.phone = phone, !.queried = TRUE,
                                   !.db_fault = TRUE, !.http = 500]
                ELSE [NoApi EXCEPT !.route = "GET /api/userinfo",
                                   !.phone = phone, !.queried = TRUE,
                                   !.http = answer.http,
                                   !.envelope = answer.envelope,
                                   !.body = answer.body]
    /\ api_prev' = PreviousLookup
    /\ UNCHANGED <<negVars, recVars, authVars>>

\* POST /api/vapi/get-user-info: no schema; a failed query is answered with
\* the error envelope
VapiGetUserInfo(phone) ==
    /\ \E ok \in BOOLEAN :
          LET answer == VapiUserInfoResponse(users,
                                             UsersByPhone(users, phone))
          IN  api' =
                IF ~ok
                THEN [NoApi EXCEPT !.route = "POST /api/vapi/get-user-info",
                                   !.phone = phone, !.queried = TRUE,
                                   !.db_fault = TRUE, !.http = 200,
                                   !.envelope = "error"]
                ELSE [NoApi EXCEPT !.route = "POST /api/vapi/get-user-info",
                                   !.phone = phone, !.queried = TRUE,
                                   !.http = answer.http,
                                   !.envelope = answer.envelope,
                                   !.body = answer.body]
    /\ api_prev' = PreviousLookup
    /\ UNCHANGED <<negVars, recVars, authVars>>

ApiNext ==
    \/ \E params \in NegotiateParams : GetNegotiation(params)
    \/ \E params \in NegotiateParams : VapiNegotiate(params)
    \/ \E phone \in Phones : GetUserInfo(phone)
    \/ \E phone \in Phones : VapiGetUserInfo(phone)

\* requests served one at a time
Next == RecStep(1)


Init == RecInit /\ NegIdle /\ AuthIdle /\ ApiIdle

\* the recorder and the store: call results served one at a time
Spec == Init /\ [][Next]_vars

\* the authentication gate in front of the routes
InitAuth == AuthInit /\ NegIdle /\ RecIdle /\ ApiIdle

SpecAuth == InitAuth /\ [][AuthNext]_vars

\* the calculator on its own: one negotiation session, the store untouched
InitNeg == NegInit /\ RecIdle /\ AuthIdle /\ ApiIdle

SpecNeg == InitNeg /\ [][NegNext]_vars

\* two call results in flight at once, one per slot, each with a payment
\* (final_amount 150)
ConcurrentSubmit(s) ==
    /\ req[s].pc = "idle"
    /\ \E route \in Routes, uid \in UserIds, status \in {"SUCCESS", "PARTIAL"},
          debt \in RequestDebts :
           Submit(s, route, uid, status, 150, debt)

ConcStep(s) ==
    \/ ConcurrentSubmit(s)
    \/ Connect(s)
    \/ Begin(s)
    \/ SelectUser(s)
    \/ Dispatch(s)
    \/ Insert(s)
    \/ Commit(s)
    \/ Rollback(s)
    \/ SaveSelectUser(s)
    \/ SaveInsert(s)

ConcNext == \E s \in Slots : ConcStep(s)

InitConc == RecInit /\ NegIdle /\ AuthIdle /\ ApiIdle

\* the recorder serving requests concurrently
SpecConc == InitConc /\ [][ConcNext]_vars

InitGate == AuthInit /\ webhook_secret = Absent /\ NegIdle /\ RecIdle /\ ApiIdle

\* the gate with requests authenticating concurrently
SpecGate == InitGate /\ [][GateNext]_vars

\* the HTTP API layer: validation and the read routes
InitApi == ApiIdle /\ NegIdle /\ RecIdle /\ AuthIdle

SpecApi == InitApi /\ [][ApiNext]_vars

\* ------------------------------------------------------------------------
\* Properties of the recorder
\* ------------------------------------------------------------------------
Paid == {"SUCCESS", "PARTIAL"}

Done(s) == req[s].pc = "done"

\* the request was answered with success: its row is in call_sessions
Recorded(s) == Done(s) /\ req[s].response.ok

RowOf(s) == call_sessions[req[s].response.session_id]

DispatcherFailed(s) == req[s].mail \in {"render_failed", "send_failed"}

\* C3: after a call result with outcome SUCCESS or PARTIAL is recorded for a
\* user, on either recording route, that user's remaining_debt equals the
\* recorded session's debt_after.
C3_DebtPropagated ==
    \A s \in Slots :
        (Recorded(s) /\ req[s].status \in Paid)
        => users[req[s].user_id].remaining_debt = RowOf(s).debt_after

\* C4: recording a call result with outcome REFUSED leaves the user's
\* remaining_debt and total_debt as they were before the request, for any
\* final_amount and debt figure supplied.
C4_RefusedKeepsDebt ==
    \A s \in Slots :
        (req[s].pc # "idle" /\ req[s].status = "REFUSED")
        => users = req[s].users_at_submit

\* a REFUSED result recorded with a debt figure other than the stored one
C4_Witness ==
    \E s \in Slots :
        /\ Recorded(s)
        /\ req[s].status = "REFUSED"
        /\ RowOf(s).debt_after # users[req[s].user_id].remaining_debt

PaidRows(u) ==
    {i \in 1..Len(call_sessions) :
        call_sessions[i].user_id = u /\ call_sessions[i].outcome \in Paid}

LastOf(S) == CHOOSE i \in S : \A j \in S : j <= i

\* C5: recording is atomic on every recording route: in every state, also
\* after a failed step, the committed SUCCESS/PARTIAL rows of a user and the
\* user's remaining_debt agree - no paid row without its debt update, no debt
\* update without its row.
C5_RowAndDebtTogether ==
    \A u \in UserIds :
        users[u].remaining_debt =
            IF PaidRows(u) = {}
            THEN SeedUsers[u].remaining_debt
            ELSE call_sessions[LastOf(PaidRows(u))].debt_after

\* C6: when the render or the send fails during a SUCCESS or PARTIAL call
\* result for a user with an email, and the store is reachable, the request
\* persists exactly one row and answers with success.
C6_Original ==
    \A s \in Slots :
        (Done(s) /\ DispatcherFailed(s) /\ ~req[s].db_fault)
        => /\ req[s].response.ok
           /\ Len(call_sessions) = req[s].rows_at_submit + 1

BothPending(integrations) ==
    /\ integrations.invoice.status = "PENDING"
    /\ integrations.email.status = "PENDING"

\* C7: a failed render is persisted as invoice FAILED with the error text; a
\* failed send after a successful render as invoice SUCCESS and email FAILED
\* with the error text; a failed attempt never leaves both PENDING.
C7_FailedSubStepRecorded ==
    \A s \in Slots :
        Recorded(s) =>
            /\ req[s].mail = "render_failed"
                  => /\ RowOf(s).integrations.invoice.status = "FAILED"
                     /\ RowOf(s).integrations.invoice.error # ""
            /\ req[s].mail = "send_failed"
                  => /\ RowOf(s).integrations.invoice.status = "SUCCESS"
                     /\ RowOf(s).integrations.email.status = "FAILED"
                     /\ RowOf(s).integrations.email.error # ""
            /\ DispatcherFailed(s) => ~BothPending(RowOf(s).integrations)

HasEmail(u) == u \in DOMAIN users /\ users[u].email \notin {NoEmail, ""}

\* C8: the dispatcher is invoked during a call result only when the outcome
\* is SUCCESS or PARTIAL and the user has an email on file; otherwise it is
\* not invoked and the persisted invoice and email statuses are both PENDING.
C8_DispatcherOnlyForPaidWithEmail ==
    \A s \in Slots :
        /\ (req[s].pc = "dispatch" \/ req[s].mail # "none")
              => (req[s].status \in Paid /\ HasEmail(req[s].user_id))
        /\ (Recorded(s)
              /\ (req[s].status = "REFUSED" \/ ~HasEmail(req[s].user_id)))
              => (req[s].mail = "none" /\ BothPending(RowOf(s).integrations))

\* a paid result recorded for the user without an email
C8_Witness ==
    \E s \in Slots :
        /\ Recorded(s)
        /\ req[s].status \in Paid
        /\ ~HasEmail(req[s].user_id)
        /\ BothPending(RowOf(s).integrations)

KnownUser(s) == req[s].user_id \in DOMAIN req[s].users_at_submit

\* C12: every POST /api/call_result request that passed the gate and
\* CallResultSchema and names an existing user, the store reachable, persists
\* exactly one call session row and is answered with success, for every
\* status, initial_amount >= 0, final_amount >= 0 and debt >= 0.
C12_ValidCallResultRecorded ==
    \A s \in Slots :
        (Done(s) /\ req[s].route = "call_result" /\ KnownUser(s)
            /\ ~req[s].db_fault)
        => /\ req[s].response.ok
           /\ Len(call_sessions) = req[s].rows_at_submit + 1

\* C13: a POST /api/call_result naming a user_id that matches no user is
\* answered 404, writes no call session row and sends no email.
C13_UnknownUserNotFound ==
    \A s \in Slots :
        (Done(s) /\ req[s].route = "call_result" /\ ~KnownUser(s)
            /\ ~req[s].db_fault)
        => /\ req[s].response.http = 404
           /\ Len(call_sessions) = req[s].rows_at_submit
           /\ req[s].mail = "none"

\* the handler has read the user and computed its locals
LocalsSet(s) == req[s].user # NoUser

\* debt when REFUSED, else max(0, debt - final_amount)
ExpectedDebtAfter(s) ==
    IF req[s].status = "REFUSED"
    THEN req[s].debt
    ELSE IF req[s].debt - req[s].final_amount > 0
         THEN req[s].debt - req[s].final_amount
         ELSE 0

\* C19: for every status, debt >= 0 and final_amount >= 0, the debt_after
\* recorded and returned as debt_left is debt when the status is REFUSED and
\* max(0, debt - final_amount) otherwise; calculateDebtAfter and the inline
\* computations of both recording routes give the same value.
C19_DebtAfterFormula ==
    \A s \in Slots :
        LocalsSet(s) =>
            /\ req[s].debtAfter = ExpectedDebtAfter(s)
            /\ calculateDebtAfter(req[s].status, req[s].debt,
                                  req[s].final_amount) = ExpectedDebtAfter(s)
            /\ CallResultDebtAfter(req[s].status, req[s].debt,
                                   req[s].final_amount) = ExpectedDebtAfter(s)
            /\ SaveResultDebtAfter(req[s].status, req[s].debt,
                                   req[s].final_amount) = ExpectedDebtAfter(s)
            /\ Recorded(s)
                  => /\ RowOf(s).debt_after = ExpectedDebtAfter(s)
                     /\ req[s].response.debt_left = ExpectedDebtAfter(s)

\* a payment above the debt figure, recorded with debt_left 0
C19_Witness ==
    \E s \in Slots :
        /\ Recorded(s)
        /\ req[s].status = "PARTIAL"
        /\ req[s].final_amount > req[s].debt
        /\ req[s].response.debt_left = 0

\* C20: after any sequence of call-result requests on either recording route,
\* every persisted call session has debt_after <= debt_before, final_amount
\* = 0 if its outcome is REFUSED, and final_amount > 0 if its outcome is
\* SUCCESS or PARTIAL.
C20_PersistedRowsConsistent ==
    \A i \in 1..Len(call_sessions) :
        /\ call_sessions[i].debt_after <= call_sessions[i].debt_before
        /\ call_sessions[i].outcome = "REFUSED"
              => call_sessions[i].final_amount = 0
        /\ call_sessions[i].outcome \in Paid
              => call_sessions[i].final_amount > 0

\* a REFUSED row persisted, and a later request whose row the constraints
\* turned down
C20_Witness ==
    /\ Len(call_sessions) = 1
    /\ call_sessions[1].outcome = "REFUSED"
    /\ \E s \in Slots : Done(s) /\ req[s].rejected

\* both slots answered with success, and in flight at the same time: each
\* was submitted before the other's row was committed
BothRecordedConcurrently ==
    /\ \A s \in Slots : Recorded(s) /\ req[s].status \in Paid
    /\ req[1].user_id = req[2].user_id
    /\ req[1].rows_at_submit = 0
    /\ req[2].rows_at_submit = 0

\* C21: when two SUCCESS or PARTIAL call-result submissions for the same user
\* run concurrently, both session rows are persisted, the user's final
\* remaining_debt equals the debt_after of the submission written last, and
\* no submission is rejected because of the other.
C21_ConcurrentLastWriteWins ==
    /\ BothRecordedConcurrently
          => /\ Len(call_sessions) = 2
             /\ users[req[1].user_id].remaining_debt
                    = call_sessions[2].debt_after
    /\ \A s \in Slots :
          (Done(s) /\ req[s].rejected)
          => ~RowAccepted(users, <<>>, SessionRow(req[s], "MANUAL"))

\* C26: every call session row the recorder writes is created closed, its
\* ended_at set by the insert itself: no stored or pending row is open, so no
\* user has an open session, and the one-open-session-per-user index never
\* stands in the way of the row a request is about to insert.
C26_SessionsCreatedClosed ==
    /\ \A i \in DOMAIN call_sessions : call_sessions[i].ended
    /\ \A s \in Slots :
          /\ \A j \in DOMAIN req[s].tx : req[s].tx[j].ended
          /\ req[s].pc = "insert"
                => idx_active_call_sessions(call_sessions,
                                            SessionRow(req[s], "MANUAL"))
          /\ req[s].pc = "sr_insert"
                => idx_active_call_sessions(call_sessions,
                                            SessionRow(req[s], "VAPI"))

\* a second call result for a user who already has a session is about to be
\* inserted on one route after a row was stored through the other
C26_Witness ==
    /\ Len(call_sessions) = 1
    /\ call_sessions[1].ended
    /\ call_sessions[1].call_channel = "VAPI"
    /\ req[1].pc = "commit"
    /\ req[1].tx # <<>>
    /\ req[1].tx[1].user_id = call_sessions[1].user_id

\* C28: an invoice email is sent for a call result only if that call's
\* session row ends up persisted: no request on either recording route ends
\* with the email delivered and its session insert failed or rolled back.
C28_EmailOnlyIfPersisted ==
    \A s \in Slots :
        (Done(s) /\ req[s].mail = "ok") => Recorded(s)

\* C29: for every persisted call session, debt_before equals the owning
\* user's stored remaining_debt at the time the session was written, so
\* debt_after exceeds neither the stored remaining_debt nor total_debt.
C29_DebtBeforeIsStoredDebt ==
    \A s \in Slots :
        Recorded(s) =>
            LET stored == req[s].users_at_submit[req[s].user_id]
            IN  /\ RowOf(s).debt_before = stored.remaining_debt
                /\ RowOf(s).debt_after <= stored.remaining_debt
                /\ RowOf(s).debt_after <= stored.total_debt

\* slot s runs POST /api/call_result, the route that goes through
\* transaction(callback)
InTransaction(s) == req[s].route = "call_result" /\ req[s].pc # "idle"

\* statement st is among those issued on the client of slot s
Issued(s, st) == \E i \in DOMAIN req[s].stmts : req[s].stmts[i] = st

\* the step of slot s issues statement st
Issues(s, st) ==
    /\ Len(req'[s].stmts) = Len(req[s].stmts) + 1
    /\ req'[s].stmts[Len(req'[s].stmts)] = st

\* BEGIN before the callback, COMMIT only after the callback returned,
\* ROLLBACK and a rethrow when the callback, BEGIN or COMMIT fails, and the
\* client released exactly once on every path that checked one out
TransactionDiscipline(s) ==
    /\ req[s].pc \in {"select", "dispatch", "insert", "commit"}
          => req[s].stmts = <<"BEGIN">>
    /\ Issued(s, "COMMIT")
          => (Len(req[s].stmts) >= 2 /\ req[s].stmts[1] = "BEGIN"
                 /\ req[s].stmts[2] = "COMMIT" /\ ~req[s].rejected
                 /\ req[s].user # NoUser)
    /\ (req[s].pc = "done" /\ req[s].client = "released"
           /\ ~req[s].response.ok)
          => (req[s].stmts[Len(req[s].stmts)] = "ROLLBACK"
                 /\ req[s].response.http = 500)
    /\ (req[s].pc = "done" /\ req[s].response.ok)
          => req[s].stmts = <<"BEGIN", "COMMIT">>
    /\ req[s].releases = IF req[s].client = "released" THEN 1 ELSE 0
    /\ req[s].pc = "done" => req[s].client \in {"none", "released"}
    /\ req[s].client = "none" => (req[s].stmts = <<>> /\ req[s].releases = 0)

\* a COMMIT is issued only from the point after the callback returned a row
\* without an error
CommitAfterCallback ==
    [][\A s \in Slots :
          (InTransaction(s) /\ Issues(s, "COMMIT"))
          => (req[s].pc = "commit" /\ req[s].tx # <<>>
                 /\ ~req[s].db_fault /\ ~req[s].rejected)]_vars

\* C25: transaction(callback) issues BEGIN before running the callback,
\* COMMIT only after the callback completed without error, ROLLBACK and a
\* rethrow when the callback or COMMIT fails, releases the checked-out client
\* exactly once on every path, and never issues both COMMIT and ROLLBACK for
\* the same transaction.
C25_Original ==
    /\ [](\A s \in Slots :
             InTransaction(s) =>
                 /\ TransactionDiscipline(s)
                 /\ ~(Issued(s, "COMMIT") /\ Issued(s, "ROLLBACK")))
    /\ CommitAfterCallback

\* C25 (amended): as above, except that COMMIT and ROLLBACK are both issued
\* for one transaction exactly when COMMIT failed: the catch block then
\* issues ROLLBACK; a COMMIT that succeeded is never followed by ROLLBACK,
\* and a transaction whose callback or BEGIN failed issues no COMMIT.
C25_Transaction ==
    /\ [](\A s \in Slots :
             InTransaction(s) =>
                 /\ TransactionDiscipline(s)
                 /\ (Issued(s, "COMMIT") /\ Issued(s, "ROLLBACK"))
                       => (req[s].stmts = <<"BEGIN", "COMMIT", "ROLLBACK">>
                              /\ req[s].db_fault
                              /\ ~req[s].response.ok
                              /\ req[s].rows_at_submit = Len(call_sessions)))
    /\ CommitAfterCallback

\* a COMMIT that failed: ROLLBACK issued after it, the client released once,
\* the route answering 500 and no row stored
C25_Witness ==
    /\ req[1].route = "call_result"
    /\ req[1].pc = "done"
    /\ req[1].stmts = <<"BEGIN", "COMMIT", "ROLLBACK">>
    /\ req[1].releases = 1
    /\ req[1].response.http = 500
    /\ call_sessions = <<>>

\* ------------------------------------------------------------------------
\* Properties of the authentication gate
\* ------------------------------------------------------------------------
ValidApiKey(apiKey) == MatchingCredentials(api_credentials, apiKey) # {}

ValidBearer(authHeader) == jwt_verify(BearerToken(authHeader)) = "ok"

GatePassed(s) == areq[s].pc = "handler" \/ areq[s].handler_ran

\* C9: a request to GET /api/userinfo, GET /api/negotiation or POST
\* /api/call_result with neither an X-API-Key matching an active, non-expired
\* credential nor a valid Bearer token is answered 401 and its handler never
\* runs (the store answering the gate's queries).
C9_UnauthenticatedRejected ==
    \A s \in Slots :
        (areq[s].route \in M2MRoutes /\ areq[s].pc \in {"handler", "done"}
            /\ ~areq[s].db_fault
            /\ ~ValidApiKey(areq[s].api_key)
            /\ ~ValidBearer(areq[s].authorization))
        => (~GatePassed(s) /\ areq[s].http = 401)

SignatureMatches(s) ==
    /\ areq[s].signature # Absent
    /\ webhook_secret # Absent
    /\ areq[s].signature = webhook_secret

\* C10: a route under /api/vapi runs its handler only when x-vapi-signature
\* is present and equal to the configured VAPI_WEBHOOK_SECRET; otherwise the
\* answer is 401 and the handler (with its queries and emails) does not run.
C10_WebhookSecretRequired ==
    \A s \in Slots :
        areq[s].route \in VapiRoutes =>
            /\ GatePassed(s) => SignatureMatches(s)
            /\ (areq[s].pc = "done" /\ ~SignatureMatches(s))
                  => (areq[s].http = 401 /\ ~areq[s].handler_ran)

\* a wrong signature turned away while a secret is configured
C10_Witness ==
    \E s \in Slots :
        /\ areq[s].route \in VapiRoutes
        /\ areq[s].pc = "done"
        /\ areq[s].http = 401
        /\ areq[s].signature = "guess"
        /\ webhook_secret = "s3cret"

\* the step of slot s that passes the gate through a matching X-API-Key
KeyAuthenticated(s) ==
    areq[s].pc = "key_update" /\ areq'[s].pc = "handler"

\* C22: each request authenticated through a matching X-API-Key increments
\* the request_count of exactly the matched credential by exactly 1 and of no
\* other credential; any other step of the gate, a key that matches no
\* active, non-expired credential included, leaves every request_count
\* unchanged; with requests authenticating concurrently no increment is lost.
C22_RequestCountIncrement ==
    [][ /\ \A s \in Slots :
              KeyAuthenticated(s) =>
                  /\ areq[s].matched
                         \in MatchingCredentials(api_credentials,
                                                 areq[s].api_key)
                  /\ \A c \in CredentialIds :
                        api_credentials'[c].request_count =
                            IF c = areq[s].matched
                            THEN api_credentials[c].request_count + 1
                            ELSE api_credentials[c].request_count
        /\ (\A s \in Slots : ~KeyAuthenticated(s))
              => api_credentials' = api_credentials
      ]_vars

\* two requests with the same key, both past the SELECT before either
\* UPDATE, both authenticated: the credential counts 2
C22_Witness ==
    /\ \A s \in Slots : areq[s].pc \in {"handler", "done"}
                        /\ areq[s].matched = "c1"
                        /\ areq[s].keyRecord.request_count = 0
    /\ api_credentials["c1"].request_count = 2

\* ------------------------------------------------------------------------
\* Properties of the HTTP API layer
\* ------------------------------------------------------------------------

\* C11: on both routes that invoke the calculator (GET /api/negotiation and
\* POST /api/vapi/negotiate), a request whose user_amount or user_debt is
\* negative, zero or non-numeric is rejected as a validation failure and
\* negotiate is not called with those values.
C11_InvalidAmountsRejected ==
    (api.route \in NegotiateRoutes /\ api.invalid_amount)
    => (api.http = 400 /\ ~api.called)

LookupAnswered(r) == r.route \in LookupRoutes /\ r.queried /\ ~r.db_fault

====
